---- MODULE Spec2Model ----
(***************************************************************************)
(* Spectro: the SpectrogramGenerator class (FFT, window functions, FIR     *)
(* filter design and convolution, spectrogram assembly, autocorrelation    *)
(* pitch and harmonics).                                                   *)
(*                                                                         *)
(* Numbers.  JavaScript numbers are modelled in fixed point: a sample, a   *)
(* window weight, a kernel tap or a trigonometric value v is the integer   *)
(* v * Unit, and every product is rounded back to that resolution.         *)
(* Frequencies returned by detectPitch are exact quotients [num, den].     *)
(* Infinity, which the code produces when it divides by zero, and the      *)
(* initial -Infinity of detectPitch are the values Inf and NegInf below.   *)
(***************************************************************************)
EXTENDS Integers, Sequences, FiniteSets, TLC

\* ------------------------------------------------------------------ bounds

\* Longest sample buffer handed to generateSpectrogram.
MaxLen == 4

\* Longest signal handed directly to myFFT.
MaxFFTLen == 7

\* Longest sample buffer handed to detectPitch / extractHarmonics.
MaxPitchLen == 3

\* ------------------------------------------------------------- fixed point

\* Resolution of the fixed-point representation: 1.0 is Unit.
Unit == 10 * 10 * 10

\* Sample values of the buffers that are enumerated: -1.0, 0.0, 1.0.
Samples == {-Unit, 0, Unit}

Abs(x) == IF x < 0 THEN -x ELSE x

Min(a, b) == IF a <= b THEN a ELSE b

Max(a, b) == IF a >= b THEN a ELSE b

\* x / d rounded to the nearest integer, halves away from zero (d > 0).
RoundDiv(x, d) ==
    IF x >= 0 THEN (2 * x + d) \div (2 * d) ELSE -((2 * (-x) + d) \div (2 * d))

\* The product of two fixed-point numbers.
Mul(a, b) == RoundDiv(a * b, Unit)

RECURSIVE SumBetween(_, _, _)
\* f[lo] + ... + f[hi], summed by halves.
SumBetween(f, lo, hi) ==
    IF lo > hi THEN 0
    ELSE IF lo = hi THEN f[lo]
    ELSE LET mid == (lo + hi) \div 2
         IN  SumBetween(f, lo, mid) + SumBetween(f, mid + 1, hi)

\* f[1] + ... + f[n]
SumTo(f, n) == SumBetween(f, 1, n)

\* Math.log(2)
Ln2 == 693

RECURSIVE Ln(_)
\* Math.log(x) for x >= 1: halved down to [1, 2), then
\* 2*(z + z^3/3 + z^5/5 + z^7/7) with z = (x - 1)/(x + 1).
Ln(x) ==
    IF x >= 2 * Unit THEN Ln2 + Ln(RoundDiv(x, 2))
    ELSE LET z == RoundDiv((x - Unit) * Unit, x + Unit)
             z2 == Mul(z, z)
             z3 == Mul(z2, z)
             z5 == Mul(z3, z2)
             z7 == Mul(z5, z2)
         IN  2 * z + RoundDiv(2 * z3, 3) + RoundDiv(2 * z5, 5) + RoundDiv(2 * z7, 7)

RECURSIVE Exp(_)
\* Math.exp(y) for y >= 0: Math.log(2) taken off until y < Math.log(2), then
\* 1 + y + y^2/2 + ... + y^6/720.
Exp(y) ==
    IF y >= Ln2 THEN 2 * Exp(y - Ln2)
    ELSE LET y2 == Mul(y, y)
             y3 == Mul(y2, y)
             y4 == Mul(y3, y)
             y5 == Mul(y4, y)
             y6 == Mul(y5, y)
         IN  Unit + y + RoundDiv(y2, 2) + RoundDiv(y3, 6) + RoundDiv(y4, 24)
                + RoundDiv(y5, 120) + RoundDiv(y6, 720)

\* Math.PI
PI == 3142

\* Angles are counted in Turn-ths of a full turn (2*Math.PI is Turn).
Turn == 4 * 100

\* Math.sin over the first quarter turn, SinQ[t + 1] = sin(2*pi*t/Turn).
SinQ ==
    <<0, 16, 31, 47, 63, 78, 94, 110, 125, 141, 156, 172, 187, 203, 218, 233, 249,
      264, 279, 294, 309, 324, 339, 353, 368, 383, 397, 412, 426, 440, 454, 468,
      482, 495, 509, 522, 536, 549, 562, 575, 588, 600, 613, 625, 637, 649, 661,
      673, 685, 696, 707, 718, 729, 740, 750, 760, 771, 780, 790, 800, 809, 818,
      827, 836, 844, 853, 861, 869, 876, 884, 891, 898, 905, 911, 918, 924, 930,
      935, 941, 946, 951, 956, 960, 965, 969, 972, 976, 979, 982, 985, 988, 990,
      992, 994, 996, 997, 998, 999, 1000, 1000, 1000>>

\* Math.sin of the angle 2*pi*t/Turn, t any integer.
Sin(t) ==
    LET r == t % Turn
        q == Turn \div 4
    IN  IF r <= q THEN SinQ[r + 1]
        ELSE IF r <= 2 * q THEN SinQ[2 * q - r + 1]
        ELSE IF r <= 3 * q THEN -SinQ[r - 2 * q + 1]
        ELSE -SinQ[Turn - r + 1]

\* Math.cos of the angle 2*pi*t/Turn.
Cos(t) == Sin(t + Turn \div 4)

\* The angle 2*pi*a/b in Turn-ths, b > 0.
Angle(a, b) == RoundDiv(Turn * a, b)

RECURSIVE Ulp(_)
\* The spacing of the Float32 numbers around a magnitude a.  The model's
\* Float32 keeps nine significant binary digits: below 0.512 every multiple of
\* 1/Unit is one, and each doubling of the magnitude doubles the spacing.
Ulp(a) == IF a < 512 THEN 1 ELSE 2 * Ulp(a \div 2)

\* What a Float32Array element holds after x is stored in it: the Float32
\* nearest to x, halves to the even neighbour.
Fround(x) ==
    LET a == Abs(x)
        u == Ulp(a)
        q == a \div u
        r == a % u
        m == IF 2 * r < u THEN q
             ELSE IF 2 * r > u THEN q + 1
             ELSE IF q % 2 = 0 THEN q ELSE q + 1
    IN  IF x < 0 THEN -(m * u) ELSE m * u

\* --------------------------------------------------------------------- FFT

\* myFFT's base case applied to a signal of length <= 1: signal[0] || 0.
FFTBase(signal) ==
    <<[re |-> IF Len(signal) = 0 THEN 0 ELSE signal[1], im |-> 0]>>

\* The butterfly with the twiddle factor left out (the odd half added as it is).
ButterflyNoTwiddle(fftEven, fftOdd, N, k) ==
    LET half == N \div 2
        kk == IF k <= half THEN k - 1 ELSE k - 1 - half
    IN  IF k <= half
        THEN [re |-> fftEven[kk + 1].re + fftOdd[kk + 1].re,
              im |-> fftEven[kk + 1].im + fftOdd[kk + 1].im]
        ELSE [re |-> fftEven[kk + 1].re - fftOdd[kk + 1].re,
              im |-> fftEven[kk + 1].im - fftOdd[kk + 1].im]

\* The butterfly with the upper half added like the lower half:
\* combined[k + N/2] = even + exp.
ButterflyAddOnly(fftEven, fftOdd, N, k) ==
    LET half == N \div 2
        kk == IF k <= half THEN k - 1 ELSE k - 1 - half
        angle == Angle(-kk, N)
        expRe == Mul(Cos(angle), fftOdd[kk + 1].re) - Mul(Sin(angle), fftOdd[kk + 1].im)
        expIm == Mul(Sin(angle), fftOdd[kk + 1].re) + Mul(Cos(angle), fftOdd[kk + 1].im)
    IN  [re |-> fftEven[kk + 1].re + expRe, im |-> fftEven[kk + 1].im + expIm]

\* One output bin of the butterfly: index k in 1..N of combined.
Butterfly(fftEven, fftOdd, N, k) ==
    LET half == N \div 2
        kk == IF k <= half THEN k - 1 ELSE k - 1 - half
        angle == Angle(-kk, N)
        cos == Cos(angle)
        sin == Sin(angle)
        tRe == fftOdd[kk + 1].re
        tIm == fftOdd[kk + 1].im
        expRe == Mul(cos, tRe) - Mul(sin, tIm)
        expIm == Mul(sin, tRe) + Mul(cos, tIm)
        evenRe == fftEven[kk + 1].re
        evenIm == fftEven[kk + 1].im
    IN  IF k <= half
        THEN [re |-> evenRe + expRe, im |-> evenIm + expIm]
        ELSE [re |-> evenRe - expRe, im |-> evenIm - expIm]

\* The length test of myFFT: TRUE when the call throws for a signal of length N > 1.
FFTRejects(N) == N % 2 # 0

RECURSIVE myFFT(_)
\* myFFT(signal): [thrown, bins]; thrown is the Error of an odd length > 1 met
\* anywhere in the recursion, in which case no bins are returned.
myFFT(signal) ==
    LET N == Len(signal) IN
    IF N <= 1 THEN [thrown |-> FALSE, bins |-> FFTBase(signal)]
    ELSE IF FFTRejects(N) THEN [thrown |-> TRUE, bins |-> <<>>]
    ELSE
        LET half == N \div 2
            even == [i \in 1..half |-> signal[2 * i - 1]]
            odd == [i \in 1..half |-> signal[2 * i]]
            fftEven == myFFT(even)
        IN  IF fftEven.thrown THEN fftEven
            ELSE LET fftOdd == myFFT(odd) IN
                 IF fftOdd.thrown THEN fftOdd
                 ELSE [thrown |-> FALSE,
                       bins |-> [k \in 1..N |-> Butterfly(fftEven.bins, fftOdd.bins, N, k)]]

\* ----------------------------------------------------------- configuration

\* The documented defaults.
DEFAULT_PARAMS ==
    [sampleRate |-> 44100, scaleType |-> "Linear", fMin |-> 1, fMax |-> 30000,
     fftSize |-> 2048, windowType |-> "BH7", colormapName |-> "hot",
     canvasHeight |-> 500, nTicks |-> 0, gainDb |-> 0, rangeDb |-> 0,
     targetWidth |-> 0, showFrequencyAxis |-> FALSE, filterType |-> "none",
     filterCutoffs |-> <<>>, enablePitchDetection |-> FALSE,
     enableHarmonicsExtraction |-> FALSE]

\* The constructor with the overrides dropped: this.params = DEFAULT_PARAMS.
ConstructDefaults(options) == DEFAULT_PARAMS

\* { ...DEFAULT_PARAMS, ...options }: options is a function on the fields the
\* caller supplies.
Construct(options) ==
    [f \in DOMAIN DEFAULT_PARAMS |->
        IF f \in DOMAIN options THEN options[f] ELSE DEFAULT_PARAMS[f]]

\* ---------------------------------------------------------------- windows

\* The seven Blackman-Harris coefficients of applyWindow.
BH7 == <<271, -433, 218, -66, 11, -1, 0>>

\* The weight the 'BH7' case accumulates for sample i of N: w after its loop.
BH7Weight(i, N) ==
    SumTo([j \in 1..Len(BH7) |-> Mul(BH7[j], Cos(Angle((j - 1) * i, N)))], Len(BH7))

\* out[i] with the Hanning weight of the symmetric window,
\* 0.5*(1 - cos(2*pi*i/(N - 1))), in place of the periodic one.
WindowedSymmetric(signal, windowType, i) ==
    LET N == Len(signal)
        x == signal[i + 1]
    IN  CASE windowType = "Cosine" -> Mul(x, Sin(Angle(i, 2 * N)))
          [] windowType = "Hanning" ->
                RoundDiv(x * (Unit - Cos(Angle(i, N - 1))), 2 * Unit)
          [] windowType = "BH7" -> Mul(x, BH7Weight(i, N))

\* The number stored in out[i] by the cases of applyWindow that fill out (i is
\* 0-based).  Halving a float is exact: the Hanning product is rounded once.
Windowed(signal, windowType, i) ==
    LET N == Len(signal)
        x == signal[i + 1]
    IN  CASE windowType = "Cosine" -> Mul(x, Sin(Angle(i, 2 * N)))
          [] windowType = "Hanning" ->
                RoundDiv(x * (Unit - Cos(Angle(i, N))), 2 * Unit)
          [] windowType = "BH7" -> Mul(x, BH7Weight(i, N))

\* applyWindow with the return of case 'None' lost: control falls through to
\* the 'Cosine' case.
applyWindowFallThrough(signal, windowType) ==
    IF windowType \in {"None", "Cosine", "Hanning", "BH7"}
    THEN [same |-> FALSE,
          data |-> [i \in 1..Len(signal) |->
                       Fround(Windowed(signal,
                                       IF windowType = "None" THEN "Cosine"
                                       ELSE windowType, i - 1))]]
    ELSE [same |-> TRUE, data |-> signal]

\* applyWindow(signal, windowType): same is TRUE when the array returned is the
\* argument itself ('None' and the default case), FALSE when it is the new out.
applyWindow(signal, windowType) ==
    IF windowType \in {"Cosine", "Hanning", "BH7"}
    THEN [same |-> FALSE,
          data |-> [i \in 1..Len(signal) |->
                       Fround(Windowed(signal, windowType, i - 1))]]
    ELSE [same |-> TRUE, data |-> signal]

\* ------------------------------------------------------------ FIR kernels

\* const kernelSize = 101
kernelSize == 101

\* The Hamming weight of tap i: 0.54 - 0.46*cos(2*pi*i/(kernelSize - 1)).
Hamming(i) == 540 - Mul(460, Cos(Angle(i, kernelSize - 1)))

\* The sinc term of tap i (n = i - mid): 2*fc at the centre, else
\* sin(2*pi*fc*n)/(pi*n), with fc = cutoff/sampleRate.
Sinc(cutoff, sampleRate, n) ==
    IF n = 0 THEN RoundDiv(2 * cutoff * Unit, sampleRate)
    ELSE LET num == Sin(Angle(cutoff * n, sampleRate)) * Unit
             den == PI * n
         IN  IF den > 0 THEN RoundDiv(num, den) ELSE RoundDiv(-num, -den)

\* generateLowpassKernel(cutoff, sampleRate, kernelSize)[i], i in 0..kernelSize-1:
\* the sinc term is stored in the Float32Array, and so is its product with the
\* Hamming weight.
generateLowpassKernel(cutoff, sampleRate, i) ==
    LET mid == kernelSize \div 2
    IN  Fround(Mul(Fround(Sinc(cutoff, sampleRate, i - mid)), Hamming(i)))

\* The highpass kernel without the delta: the lowpass kernel negated.
generateHighpassKernelNoDelta(cutoff, sampleRate, i) ==
    Fround(-generateLowpassKernel(cutoff, sampleRate, i))

\* generateHighpassKernel(cutoff, sampleRate, kernelSize)[i]
generateHighpassKernel(cutoff, sampleRate, i) ==
    LET mid == kernelSize \div 2
    IN  Fround((IF i = mid THEN Unit ELSE 0)
                   - generateLowpassKernel(cutoff, sampleRate, i))

\* The bandpass kernel with the two lowpass kernels exchanged.
generateBandpassKernelSwapped(lowCut, highCut, sampleRate, i) ==
    Fround(generateLowpassKernel(lowCut, sampleRate, i)
               - generateLowpassKernel(highCut, sampleRate, i))

\* generateBandpassKernel(lowCut, highCut, sampleRate, kernelSize)[i]
generateBandpassKernel(lowCut, highCut, sampleRate, i) ==
    Fround(generateLowpassKernel(highCut, sampleRate, i)
               - generateLowpassKernel(lowCut, sampleRate, i))

\* generateNotchKernel(lowCut, highCut, sampleRate, kernelSize)[i]
generateNotchKernel(lowCut, highCut, sampleRate, i) ==
    LET mid == kernelSize \div 2
    IN  Fround((IF i = mid THEN Unit ELSE 0)
                   - generateBandpassKernel(lowCut, highCut, sampleRate, i))

\* The kernel applyFilter designs, or "none" when it designs none: filterType
\* is 'none' (or empty), or filterCutoffs is too short for the type.
FilterKind(p) ==
    LET n == Len(p.filterCutoffs) IN
    IF p.filterType = "" \/ p.filterType = "none" THEN "none"
    ELSE IF p.filterType = "lowpass" /\ n >= 1 THEN "lowpass"
    ELSE IF p.filterType = "highpass" /\ n >= 1 THEN "highpass"
    ELSE IF p.filterType \in {"bandpass", "notch"} /\ n >= 2 THEN p.filterType
    ELSE "none"

\* kernel[i] of applyFilter, for a kind FilterKind(p) other than "none".
Kernel(p, i) ==
    LET c == p.filterCutoffs
        kind == FilterKind(p)
    IN  CASE kind = "lowpass" -> generateLowpassKernel(c[1], p.sampleRate, i)
          [] kind = "highpass" -> generateHighpassKernel(c[1], p.sampleRate, i)
          [] kind = "bandpass" -> generateBandpassKernel(c[1], c[2], p.sampleRate, i)
          [] kind = "notch" -> generateNotchKernel(c[1], c[2], p.sampleRate, i)

\* kernel as applyFilter leaves it: the kernelSize taps of the kind designed,
\* and no taps when it returns before designing one.
DesignedKernel(p) ==
    IF FilterKind(p) = "none" THEN <<>>
    ELSE [j \in 1..kernelSize |-> Kernel(p, j - 1)]

\* The sum with the samples before the first and after the last taken to be
\* the first and the last sample, not dropped.
ConvolveEdgeHeld(taps, signal, i) ==
    LET mid == kernelSize \div 2
        term(j) == LET k == Max(0, Min(Len(signal) - 1, i - mid + j))
                   IN  Mul(signal[k + 1], taps[j + 1])
    IN  SumTo([j \in 1..kernelSize |-> term(j - 1)], kernelSize)

\* sum after the inner loop of applyFilter's convolution for output[i] (i is
\* 0-based): the taps j whose sample index k = i - mid + j lies inside the signal.
Convolve(taps, signal, i) ==
    LET mid == kernelSize \div 2
        term(j) == LET k == i - mid + j
                   IN  IF k >= 0 /\ k < Len(signal)
                       THEN Mul(signal[k + 1], taps[j + 1])
                       ELSE 0
    IN  SumTo([j \in 1..kernelSize |-> term(j - 1)], kernelSize)

\* The convolution writing its sums into the signal it reads.
SignalAfterFilterInPlace(p, signal) ==
    IF FilterKind(p) = "none" THEN signal
    ELSE LET taps == DesignedKernel(p) IN
                  [i \in 1..Len(signal) |-> Fround(Convolve(taps, signal, i - 1))]

\* The argument array of applyFilter after the call: the sums are written to
\* output, a new Float32Array, and the signal is only read.
SignalAfterFilter(p, signal) == signal

\* applyFilter with its two early returns lost: without a kernel the zeroed
\* output array is returned instead of the signal.
applyFilterNoFallback(p, signal) ==
    IF FilterKind(p) = "none"
    THEN [same |-> FALSE, convolutions |-> 0, data |-> [i \in 1..Len(signal) |-> 0]]
    ELSE [same |-> FALSE, convolutions |-> 1,
          data |-> LET taps == DesignedKernel(p) IN
                  [i \in 1..Len(signal) |-> Fround(Convolve(taps, signal, i - 1))]]

\* applyFilter(signal) of a generator with parameters p.  same is TRUE when
\* the array returned is the argument itself; convolutions counts the runs of
\* the convolution loop.
applyFilter(p, signal) ==
    IF FilterKind(p) = "none"
    THEN [same |-> TRUE, convolutions |-> 0, data |-> signal]
    ELSE [same |-> FALSE, convolutions |-> 1,
          data |-> LET taps == DesignedKernel(p) IN
                  [i \in 1..Len(signal) |-> Fround(Convolve(taps, signal, i - 1))]]

\* ------------------------------------------------------------ spectrogram

\* Float32Array.prototype.slice(start, end) with start, end >= 0 (0-based,
\* end exclusive, clamped to the length).
Slice(a, start, end) == SubSeq(a, Min(start, Len(a)) + 1, Min(end, Len(a)))

\* numFrames with the quotient truncated toward zero instead of floored.
NumFramesTruncated(length, fftSize) ==
    (IF length >= fftSize THEN (2 * (length - fftSize)) \div fftSize
     ELSE -((2 * (fftSize - length)) \div fftSize)) + 1

\* numFrames with the quotient rounded up: a last frame is produced for the
\* samples left over.
NumFramesRoundedUp(length, fftSize) ==
    ((2 * (length - fftSize) + fftSize - 1) \div fftSize) + 1

\* numFrames of computeSpectrogram: floor((length - fftSize) / (fftSize / 2)) + 1.
NumFrames(length, fftSize) == ((2 * (length - fftSize)) \div fftSize) + 1

\* Frames laid end to end: hopSize = fftSize, no overlap.
FrameStartNoOverlap(i, fftSize) == i * fftSize

\* The sample index at which frame i starts: i * hopSize, hopSize = fftSize/2,
\* truncated as slice truncates its arguments.
FrameStart(i, fftSize) == (i * fftSize) \div 2

\* The index at which frame i ends: i * hopSize + fftSize, truncated.
FrameEnd(i, fftSize) == (i * fftSize + 2 * fftSize) \div 2

RECURSIVE SqrtBetween(_, _, _)
\* Math.sqrt, rounded down: the largest r in lo..hi with r * r <= m.
SqrtBetween(m, lo, hi) ==
    IF lo >= hi THEN lo
    ELSE LET mid == (lo + hi + 1) \div 2
         IN  IF mid * mid <= m THEN SqrtBetween(m, mid, hi)
             ELSE SqrtBetween(m, lo, mid - 1)

\* DbSteps[d] is the least magnitude m (in 1/Unit) with 20*log10(m) >= d.
DbSteps ==
    <<2, 2, 2, 2, 2, 2, 3, 3, 3, 4, 4, 4, 5, 6, 6, 7, 8, 8, 9, 10, 12, 13, 15, 16,
      18, 20, 23, 26, 29, 32, 36, 40, 45, 51, 57, 64, 71, 80, 90, 100, 113, 126, 142,
      159, 178, 200, 224, 252, 282, 317, 355, 399, 447, 502, 563, 631, 708, 795, 892,
      1000, 1123, 1259, 1413, 1585, 1779, 1996, 2239, 2512, 2819, 3163, 3549, 3982,
      4467, 5012, 5624, 6310, 7080, 7944, 8913, 10000, 11221, 12590, 14126, 15849,
      17783, 19953, 22388, 25119, 28184, 31623, 35482, 39811, 44669, 50119, 56235,
      63096, 70795, 79433, 89126, 100000>>

\* The decibels without the 1e-12: Math.log(0) is -Infinity.
DecibelsOfBareLog(mag) ==
    IF mag = 0 THEN -(2 ^ 30)
    ELSE Cardinality({d \in 1..Len(DbSteps) : DbSteps[d] <= mag}) - 60

\* 20 * (Math.log(mag + 1e-12) / Math.LN10) in whole decibels, rounded down;
\* mag is in 1/Unit, and a magnitude of 0 gives 20*log10(1e-12) = -240.
Decibels(mag) ==
    IF mag = 0 THEN -240
    ELSE Cardinality({d \in 1..Len(DbSteps) : DbSteps[d] <= mag}) - 60

\* magArray of one frame: the decibel magnitude of the first half of the bins.
MagArray(bins) ==
    [j \in 1..((Len(bins) + 1) \div 2) |->
        LET re == bins[j].re
            im == bins[j].im
        IN  Decibels(SqrtBetween(re * re + im * im, 0, Abs(re) + Abs(im)))]

\* ------------------------------------------------- numbers that are not finite

\* Infinity, the quotient of a positive number by zero.
Inf == 10 ^ 6

\* -Infinity, the initial bestCorrelation.
NegInf == -(2 ^ 30)

\* NaN, the quotient 0 / 0.
NaN == 2 * Inf

\* Math.min and Math.max: NaN if an argument is NaN.
MathMin(a, b) == IF a = NaN \/ b = NaN THEN NaN ELSE Min(a, b)

MathMax(a, b) == IF a = NaN \/ b = NaN THEN NaN ELSE Max(a, b)

\* A frequency, and any number that must stay exact, is the quotient num/den.
Freq(num, den) == [num |-> num, den |-> den]

\* a / b for exact quotients a, b >= 0; a quotient with den = 0 is Infinity
\* (num > 0) or NaN (num = 0).
Quot(a, b) == Freq(a.num * b.den, a.den * b.num)

\* Math.floor of an exact quotient >= 0.
Floor(q) ==
    IF q.den = 0 THEN (IF q.num = 0 THEN NaN ELSE Inf) ELSE q.num \div q.den

\* ------------------------------------------------------------- bin range

\* generateSpectrogram: nyquist = sampleRate / 2
nyquist(p) == Quot(Freq(p.sampleRate, 1), Freq(2, 1))

\* binFreq with the division by fftSize / 2 left out.
binFreqOfRateAlone(p) == nyquist(p)

\* generateSpectrogram: binFreq = nyquist / (fftSize / 2)
binFreq(p) == Quot(nyquist(p), Quot(Freq(p.fftSize, 1), Freq(2, 1)))

\* generateSpectrogram: i_min = Math.floor(fMin / binFreq)
i_min(p) == Floor(Quot(Freq(p.fMin, 1), binFreq(p)))

\* generateSpectrogram: i_max = Math.floor(fMax / binFreq)
i_max(p) == Floor(Quot(Freq(p.fMax, 1), binFreq(p)))

\* --------------------------------------------------------------- rendering

\* The functions a page may have bound to a colormap name on the global object,
\* and "undefined" for a name bound to no function.
Bindings == {"undefined", "gray", "blue", "number", "pair"}

\* fn(value) for the function a binding names: what it returns and whether
\* that is an array.  Colour components are fixed-point numbers.
CallColormap(fn, value) ==
    LET v == IF value = NaN THEN NaN ELSE 255 * value IN
    CASE fn = "gray" -> [isArray |-> TRUE, items |-> <<v, v, v>>]
      [] fn = "blue" -> [isArray |-> TRUE, items |-> <<0, 0, v>>]
      [] fn = "pair" -> [isArray |-> TRUE, items |-> <<v, v>>]
      [] fn = "number" -> [isArray |-> FALSE, items |-> <<>>]

\* getColormapValue(value, colormapName) under the global object w.
getColormapValue(w, value, colormapName) ==
    LET fn == IF colormapName \in DOMAIN w.bound THEN w.bound[colormapName]
              ELSE "undefined"
    IN  IF fn # "undefined"
        THEN LET result == CallColormap(fn, value)
             IN  IF result.isArray THEN result.items ELSE <<0, 0, 0>>
        ELSE <<IF value = NaN THEN NaN ELSE 255 * value, 0, 0>>

\* The value a Uint8ClampedArray stores for a fixed-point number: NaN is 0, the
\* rest is clamped to 0..255 and rounded to the nearest integer, halves to even.
ToUint8Clamped(x) ==
    IF x = NaN \/ x <= 0 THEN 0
    ELSE IF x >= 255 * Unit THEN 255
    ELSE LET q == x \div Unit
             r == x % Unit
         IN  IF 2 * r < Unit THEN q
             ELSE IF 2 * r > Unit THEN q + 1
             ELSE IF q % 2 = 0 THEN q ELSE q + 1

\* The value used for a cell that holds no data.
MissingDb == -100

\* A cell that holds no data read as silence, 20*log10(1e-12), not as -100.
CellDbAsSilence(column, binIndex) ==
    IF binIndex >= 0 /\ binIndex < Len(column)
    THEN [db |-> column[binIndex + 1], exact |-> FALSE]
    ELSE [db |-> -240, exact |-> TRUE]

\* spectrogramData[x][binIndex] ?? -100 for one column.  A value of the
\* matrix is known rounded down to whole decibels (exact = FALSE); the
\* fallback is the number itself.
CellDb(column, binIndex) ==
    IF binIndex >= 0 /\ binIndex < Len(column)
    THEN [db |-> column[binIndex + 1], exact |-> FALSE]
    ELSE [db |-> MissingDb, exact |-> TRUE]

\* val before clamping: (valueDB + gainDb) / rangeDb, fixed point.  A division
\* by zero gives an infinity of the sign of the dividend, and NaN for 0 / 0.
Normalize(cell, gainDb, rangeDb) ==
    LET valueDB == cell.db + gainDb IN
    IF rangeDb = 0
    THEN IF valueDB = 0 /\ cell.exact THEN NaN
         ELSE IF valueDB >= 0 THEN Inf ELSE NegInf
    ELSE IF rangeDb > 0 THEN RoundDiv(valueDB * Unit, rangeDb)
    ELSE -RoundDiv(valueDB * Unit, -rangeDb)

\* val = Math.max(0, Math.min(val, 1))
Clamp(val) == MathMax(0, MathMin(val, Unit))

\* The colour createOffscreenCanvas writes for val: the colormap's, or its own
\* when the colormap's is no array of three.
Colour(w, val, colormapName) ==
    LET colorArray == getColormapValue(w, val, colormapName)
        own == <<IF val = NaN THEN NaN
                 ELSE ((255 * MathMin(Unit, 2 * val)) \div Unit) * Unit,
                 IF val # NaN /\ 2 * val > Unit THEN 255 * Unit ELSE 0,
                 0>>
        rgb == IF Len(colorArray) < 3 THEN own ELSE colorArray
    IN  <<ToUint8Clamped(rgb[1]), ToUint8Clamped(rgb[2]), ToUint8Clamped(rgb[3]), 255>>

\* globalMax: the greatest value of the matrix inside the bin range, -100 when
\* the range holds no value.
GlobalMax(matrix, iMin, iMax) ==
    LET cells == {c \in (1..Len(matrix)) \X (iMin..(iMax - 1)) :
                     c[2] < Len(matrix[c[1]])}
        inside == {matrix[c[1]][c[2] + 1] : c \in cells}
    IN  IF inside = {} THEN MissingDb
        ELSE CHOOSE m \in inside : \A o \in inside : o <= m

\* createOffscreenCanvas(spectrogramData, i_min, i_max, colormapName) of a
\* generator with parameters p under the global object w.  The image is kept by
\* column x and, inside a column, by row from the top; normalized holds the
\* number handed to the colour function for each pixel and valueDB the value
\* read for it, before the gain is added.
createOffscreenCanvas(p, w, matrix, iMin, iMax) ==
    LET specWidth == Len(matrix)
        specHeight == Max(1, iMax - iMin)
        binIndex(row) == iMin + (specHeight - row - 1)
        val(x, row) == Clamp(Normalize(CellDb(matrix[x], binIndex(row)),
                                       p.gainDb, p.rangeDb))
    IN  [specWidth |-> specWidth,
         specHeight |-> specHeight,
         globalMax |-> GlobalMax(matrix, iMin, iMax),
         valueDB |-> [x \in 1..specWidth |->
                         [row \in 1..specHeight |->
                             CellDb(matrix[x], binIndex(row - 1)).db]],
         normalized |-> [x \in 1..specWidth |->
                            [row \in 1..specHeight |-> val(x, row - 1)]],
         imageData |-> [x \in 1..specWidth |->
                           [row \in 1..specHeight |->
                               Colour(w, val(x, row - 1), p.colormapName)]]]

\* targetWidth && targetWidth > 0 ? targetWidth : window.innerWidth
WidthOf(p, w) == IF p.targetWidth > 0 THEN p.targetWidth ELSE w.innerWidth

\* 1127.01048, in hundredths.
MelScale == 112701

\* freqToMel(f) = 1127.01048 * Math.log(f / 700 + 1), for f >= 0.
freqToMel(f) == RoundDiv(MelScale * Ln(RoundDiv(f, 700) + Unit), 100)

\* melToFreq(m) = 700 * (Math.exp(m / 1127.01048) - 1), for m >= 0.
melToFreq(m) == 700 * (Exp(RoundDiv(m * 100, MelScale)) - Unit)

\* generateDynamicFreqTicks with the test nTicks < 2 lost: a loop of nTicks
\* rounds whatever nTicks is (a step over 0 ticks is Infinity).
generateDynamicFreqTicksUnclamped(f_min, f_max, scaleType, nTicks) ==
    IF nTicks < 2 THEN [i \in 1..nTicks |-> f_min]
    ELSE IF scaleType = "Mel"
    THEN LET melMin == freqToMel(f_min)
             melStep == RoundDiv(freqToMel(f_max) - melMin, nTicks - 1)
         IN  [i \in 1..nTicks |-> melToFreq(melMin + (i - 1) * melStep)]
    ELSE LET step == RoundDiv(f_max - f_min, nTicks - 1)
         IN  [i \in 1..nTicks |-> f_min + (i - 1) * step]

\* generateDynamicFreqTicks(f_min, f_max, scaleType, nTicks), for frequencies
\* 0 <= f_min, f_max and a whole nTicks: the ticks pushed, in Hz.
generateDynamicFreqTicks(f_min, f_max, scaleType, nTicks) ==
    LET n == IF nTicks < 2 THEN 2 ELSE nTicks IN
    IF scaleType = "Mel"
    THEN LET melMin == freqToMel(f_min)
             melMax == freqToMel(f_max)
             melStep == RoundDiv(melMax - melMin, n - 1)
         IN  [i \in 1..n |-> melToFreq(melMin + (i - 1) * melStep)]
    ELSE LET step == RoundDiv(f_max - f_min, n - 1)
         IN  [i \in 1..n |-> f_min + (i - 1) * step]

\* The label of a tick: (freq / 1000).toFixed(2) + ' kHz' from 1000 Hz on,
\* else freq.toFixed(0) + ' Hz'.
TickLabel(freq) ==
    IF freq >= 1000 * Unit
    THEN [hundredths |-> RoundDiv(freq, 10), unit |-> "kHz"]
    ELSE [whole |-> RoundDiv(freq, Unit), unit |-> "Hz"]

\* What drawFrequencyAxis draws: for each tick its frequency, its label and the
\* height y of its mark (NaN when the two ends of the scale coincide), then the
\* axis line.
drawFrequencyAxis(scaleType, fMin, fMax, finalHeight, leftMargin, nTicks) ==
    LET freqTicks == generateDynamicFreqTicks(fMin, fMax, scaleType, nTicks)
        melMin == freqToMel(fMin)
        melMax == freqToMel(fMax)
        ratio(freq) ==
            IF scaleType = "Mel"
            THEN IF melMax = melMin THEN NaN
                 ELSE RoundDiv((freqToMel(freq) - melMin) * Unit, melMax - melMin)
            ELSE IF fMax = fMin THEN NaN
                 ELSE RoundDiv((freq - fMin) * Unit, fMax - fMin)
        y(freq) == IF ratio(freq) = NaN THEN NaN
                   ELSE finalHeight * Unit - ratio(freq) * finalHeight
    IN  [ticks |-> [i \in 1..Len(freqTicks) |->
                       [freq |-> freqTicks[i],
                        label |-> TickLabel(freqTicks[i]),
                        x |-> leftMargin - 5,
                        y |-> y(freqTicks[i])]],
         line |-> [x |-> leftMargin, from |-> 0, to |-> finalHeight]]

\* this.params.nTicks > 0 ? this.params.nTicks
\*                        : Math.max(2, Math.floor(finalHeight / 30))
effectiveNTicks(p, finalHeight) ==
    IF p.nTicks > 0 THEN p.nTicks ELSE Max(2, finalHeight \div 30)

\* What generateSpectrogram returns for the matrix computed: the final canvas
\* with the image of the offscreen canvas drawn onto it, stretched, and the
\* frequency axis if it is asked for.
FinalCanvas(p, w, matrix) ==
    LET offscreen == createOffscreenCanvas(p, w, matrix, i_min(p), i_max(p))
        leftMargin == IF p.showFrequencyAxis THEN 60 ELSE 0
        rightMargin == IF p.showFrequencyAxis THEN 10 ELSE 0
        finalWidth == WidthOf(p, w) - (leftMargin + rightMargin)
        finalHeight == p.canvasHeight
    IN  [status |-> "returned",
         i_min |-> i_min(p),
         i_max |-> i_max(p),
         offscreen |-> offscreen,
         width |-> leftMargin + finalWidth + rightMargin,
         height |-> finalHeight,
         drawImage |-> [sw |-> offscreen.specWidth, sh |-> offscreen.specHeight,
                        dx |-> leftMargin, dy |-> 0,
                        dw |-> finalWidth, dh |-> finalHeight],
         axis |-> IF p.showFrequencyAxis
                  THEN drawFrequencyAxis(p.scaleType, p.fMin * Unit, p.fMax * Unit,
                                         finalHeight, leftMargin,
                                         effectiveNTicks(p, finalHeight))
                  ELSE <<>>]

\* ------------------------------------------------------ pitch, harmonics

\* Math.floor(sampleRate / f) for sampleRate > 0 and f >= 0.
FloorQuot(sampleRate, f) == IF f = 0 THEN Inf ELSE sampleRate \div f

\* minLag of detectPitch.
MinLag(p) == FloorQuot(p.sampleRate, p.fMax)

\* maxLag rounded up in place of down.
MaxLagRoundedUp(p) ==
    IF p.fMin = 0 THEN Inf ELSE (p.sampleRate + p.fMin - 1) \div p.fMin

\* maxLag of detectPitch.
MaxLag(p) == FloorQuot(p.sampleRate, p.fMin)

\* sum after detectPitch's inner loop: signal[i]*signal[i+lag] over the i with
\* i < length - lag (none when lag is Infinity).
Correlation(signal, lag) ==
    IF lag >= Len(signal) THEN 0
    ELSE SumTo([i \in 1..(Len(signal) - lag) |-> signal[i] * signal[i + lag]],
               Len(signal) - lag)

\* The comparison with >= in place of >: a later lag with an equal sum wins.
BetterOrEqual(sum, bestCorrelation) == sum >= bestCorrelation

\* The comparison that makes a lag the best one: sum > bestCorrelation.
Better(sum, bestCorrelation) == sum > bestCorrelation

\* lag++.  Infinity + 1 is Infinity.  When maxLag is Infinity the loop never
\* ends; the lags beyond the end of the buffer all give an empty sum, and the
\* model keeps only their parity.
NextLag(lag, maxLag, length) ==
    IF lag = Inf THEN Inf
    ELSE IF maxLag = Inf /\ lag >= length + 2 THEN length + 1
    ELSE lag + 1

\* detectPitch's return without the test of bestLag: sampleRate / bestLag always.
FundamentalUnguarded(sampleRate, bestLag) == Freq(sampleRate, bestLag)

\* What detectPitch returns for bestLag: 0 when bestLag is 0, else
\* sampleRate / bestLag.
Fundamental(sampleRate, bestLag) ==
    IF bestLag = 0 THEN Freq(0, 1) ELSE Freq(sampleRate, bestLag)

\* The test with >= in place of >: a multiple equal to fMax ends the loop.
ExceedsOrEquals(harmonicFreq, fMax) == harmonicFreq.num >= fMax * harmonicFreq.den

\* harmonicFreq > this.params.fMax
Exceeds(harmonicFreq, fMax) == harmonicFreq.num > fMax * harmonicFreq.den

\* The last multiplier n of extractHarmonics' loop.
MaxHarmonic == 10

RECURSIVE HarmonicsFrom(_, _, _)
\* The harmonics pushed by extractHarmonics' loop from multiplier n on.
HarmonicsFrom(fundamental, fMax, n) ==
    IF n > MaxHarmonic THEN <<>>
    ELSE LET harmonicFreq == Freq(fundamental.num * n, fundamental.den)
         IN  IF Exceeds(harmonicFreq, fMax) THEN <<>>
             ELSE <<harmonicFreq>> \o HarmonicsFrom(fundamental, fMax, n + 1)

\* ------------------------------------------------------------------- state

VARIABLES
    pc,               \* position of the single thread: "idle" or inside a call
    this,             \* the generator whose method is running
    options,          \* the options object each generator was constructed with
    params,           \* this.params of every generator constructed
    window,           \* the global object: innerWidth and the functions bound to names
    audioData,        \* the caller's sample buffer (the signal of a direct myFFT call)
    fftResult,        \* what the last direct myFFT call produced
    kernel,           \* applyFilter's kernel: the taps designed by its last call
    filteredData,     \* computeSpectrogram's filteredData: what applyFilter returned
    filterCalls,      \* calls of applyFilter made by the running generateSpectrogram
    fftCalls,         \* calls of myFFT made by the running generateSpectrogram
    frames,           \* the frames sliced so far: [start, samples]
    spectrogramData,  \* computeSpectrogram's spectrogramData: one magArray per frame
    outcome,          \* of generateSpectrogram: "none", "running", "returned", "thrown"
    canvas,           \* what the last generateSpectrogram / exportHighResPNG returned
    caller,           \* the public method that entered detectPitch
    lag,              \* detectPitch's lag
    bestLag,          \* detectPitch's bestLag
    bestCorrelation,  \* detectPitch's bestCorrelation
    lagsTried,        \* the lags a loop of detectPitch that ends has evaluated, in order
    result            \* per generator, what its last pitch or harmonics call returned

spectrogramVars == <<kernel, filteredData, filterCalls, fftCalls, frames, spectrogramData,
                     outcome, canvas>>

\* What no method assigns: the generators' parameters and the global object.
fixedVars == <<options, params, window>>

pitchVars == <<caller, lag, bestLag, bestCorrelation, lagsTried, result>>

vars == <<pc, this, fixedVars, audioData, fftResult, spectrogramVars, pitchVars>>

NoResult == [status |-> "none"]

\* All sequences over S of length lo..hi.
SeqsOf(S, lo, hi) == UNION {[1..n -> S] : n \in lo..hi}

\* The ways of supplying a field: not at all, or one of the values of S.
Maybe(S) == {{}} \cup {{v} : v \in S}

\* The options object whose fields are those of the record of sets given that
\* are not empty.
Options(fields) ==
    [f \in {g \in DOMAIN fields : fields[g] # {}} |-> CHOOSE v \in fields[f] : TRUE]

\* A page 800 pixels wide with the library's colormaps bound to their names.
DefaultWindow ==
    [innerWidth |-> 800, bound |-> [n \in {"hot", "jet"} |-> "gray"]]

\* The state of a generator between calls.
Idle ==
    /\ pc = "idle"
    /\ this = 1
    /\ fftResult = NoResult
    /\ kernel = <<>>
    /\ filteredData = NoResult
    /\ filterCalls = 0
    /\ fftCalls = 0
    /\ frames = <<>>
    /\ spectrogramData = <<>>
    /\ outcome = "none"
    /\ canvas = NoResult
    /\ caller = "none"
    /\ lag = 0
    /\ bestLag = 0
    /\ bestCorrelation = NegInf
    /\ lagsTried = <<>>
    /\ result = [g \in DOMAIN params |-> NoResult]

\* ------------------------------------------------- specification: the FFT

InitFFT ==
    /\ options = [g \in {1} |-> <<>>]
    /\ params = [g \in {1} |-> Construct(options[g])]
    /\ window = DefaultWindow
    /\ audioData \in SeqsOf(Samples, 0, MaxFFTLen)
    /\ Idle

\* A call of myFFT on the signal.
CallFFT ==
    /\ pc = "idle"
    /\ fftResult = NoResult
    /\ LET r == myFFT(audioData) IN
       fftResult' = [status |-> IF r.thrown THEN "thrown" ELSE "returned",
                     bins |-> r.bins]
    /\ UNCHANGED <<pc, this, fixedVars, audioData, spectrogramVars, pitchVars>>

NextFFT == CallFFT

SpecFFT == InitFFT /\ [][NextFFT]_vars

\* ---------------------------------------- specification: the spectrogram

\* fftSize values supplied by callers: powers of two and others.
FftSizes == {2, 3, 4}

\* Cutoff lists supplied by callers, in Hz (0.1 and 0.25 of the default rate).
CutoffLists == {<<4410>>, <<4410, 11025>>}

\* The options objects handed to the constructor.
SpectrogramOptions ==
    {Options([fftSize |-> s, windowType |-> w, filterType |-> t, filterCutoffs |-> c]) :
        s \in Maybe(FftSizes),
        w \in Maybe({"None", "Cosine", "Hanning"}),
        t \in Maybe({"lowpass", "highpass", "bandpass", "notch"}),
        c \in Maybe(CutoffLists)}

Init ==
    /\ options \in [{1} -> SpectrogramOptions]
    /\ params = [g \in {1} |-> Construct(options[g])]
    /\ window = DefaultWindow
    /\ audioData \in SeqsOf(Samples, 0, MaxLen)
    /\ Idle

\* generateSpectrogram(audioData) is entered on generator g, by the caller
\* (request is NoResult) or by exportHighResPNG (request holds its upscale).
EnterGenerateSpectrogram(g, request) ==
    /\ pc = "idle"
    /\ pc' = "applyFilter"
    /\ this' = g
    /\ kernel' = <<>>
    /\ filteredData' = NoResult
    /\ filterCalls' = 0
    /\ fftCalls' = 0
    /\ frames' = <<>>
    /\ spectrogramData' = <<>>
    /\ outcome' = "running"
    /\ canvas' = request
    /\ UNCHANGED <<fixedVars, audioData, fftResult, pitchVars>>

\* generateSpectrogram(audioData) is called on generator g.
GenerateSpectrogram(g) == EnterGenerateSpectrogram(g, NoResult)

\* exportHighResPNG(audioData, upscale) is called on generator g.
ExportHighResPNG(g, upscale) ==
    EnterGenerateSpectrogram(g, [status |-> "exporting", upscale |-> upscale])

\* computeSpectrogram: const filteredData = this.applyFilter(audioData).
ApplyFilterStep ==
    /\ pc = "applyFilter"
    /\ kernel' = DesignedKernel(params[this])
    /\ filteredData' = applyFilter(params[this], audioData)
    /\ filterCalls' = filterCalls + 1
    /\ pc' = "frames"
    /\ audioData' = SignalAfterFilter(params[this], audioData)
    /\ UNCHANGED <<this, fixedVars, fftResult, fftCalls, frames,
                   spectrogramData, outcome, canvas, pitchVars>>

\* Frames sliced from the raw buffer.
FrameSourceRaw(raw, filtered) == raw

\* The signal the frames of computeSpectrogram are sliced from.
FrameSource(raw, filtered) == filtered

\* computeSpectrogram: one iteration of the loop over the frames, i being the
\* number of rows pushed so far.  A throw of myFFT leaves generateSpectrogram.
FrameStep ==
    /\ pc = "frames"
    /\ LET fftSize == params[this].fftSize
           i == Len(spectrogramData)
           source == FrameSource(audioData, filteredData.data)
           start == FrameStart(i, fftSize)
           frame == Slice(source, start, FrameEnd(i, fftSize))
           windowedFrame == applyWindow(frame, params[this].windowType)
           r == myFFT(windowedFrame.data)
       IN  /\ i < NumFrames(Len(filteredData.data), fftSize)
           /\ fftCalls' = fftCalls + 1
           /\ frames' = Append(frames, [start |-> start, samples |-> frame,
                                      windowed |-> windowedFrame.data])
           /\ IF r.thrown
              THEN /\ outcome' = "thrown"
                   /\ pc' = "idle"
                   /\ UNCHANGED spectrogramData
              ELSE /\ spectrogramData' = Append(spectrogramData, MagArray(r.bins))
                   /\ UNCHANGED <<pc, outcome>>
    /\ UNCHANGED <<this, fixedVars, audioData, fftResult, kernel, filteredData, filterCalls,
                   canvas, pitchVars>>

\* exportHighResPNG's result for the canvas generateSpectrogram returned: the
\* data URL of a canvas upscale times as wide and as high with it drawn on.
HighResPNG(originalCanvas, upscale) ==
    [status |-> "returned",
     dataURL |-> [width |-> originalCanvas.width * upscale,
                  height |-> originalCanvas.height * upscale,
                  image |-> originalCanvas]]

\* The loop is over: computeSpectrogram returns spectrogramData,
\* generateSpectrogram returns the canvas drawn from it, and exportHighResPNG,
\* if it was the caller, returns the data URL of its enlargement.
ReturnSpectrogram ==
    /\ pc = "frames"
    /\ ~(Len(spectrogramData) < NumFrames(Len(filteredData.data), params[this].fftSize))
    /\ outcome' = "returned"
    /\ LET finalCanvas == FinalCanvas(params[this], window, spectrogramData) IN
       canvas' = IF canvas.status = "exporting"
                 THEN HighResPNG(finalCanvas, canvas.upscale)
                 ELSE finalCanvas
    /\ pc' = "idle"
    /\ UNCHANGED <<this, fixedVars, audioData, fftResult, kernel, filteredData, filterCalls,
                   fftCalls, frames, spectrogramData, pitchVars>>

Next ==
    \/ \E g \in DOMAIN params : GenerateSpectrogram(g)
    \/ ApplyFilterStep
    \/ FrameStep
    \/ ReturnSpectrogram

Spec == Init /\ [][Next]_vars

\* ------------------------------------------ specification: the kernels

\* Sample rates and cutoff frequencies of the filters designed, in Hz.
KernelRates == {8000, 44100}

KernelCutoffs == {440, 1000, 3400, 4410, 5000, 11025}

\* Generators of every filter type with one or two cutoffs (low before high).
KernelOptions ==
    {Options([sampleRate |-> {r}, fftSize |-> {s}, windowType |-> {"None"},
              filterType |-> {t}, filterCutoffs |-> {c}]) :
        r \in KernelRates, s \in {2, 128},
        t \in {"lowpass", "highpass", "bandpass", "notch"},
        c \in {<<lo>> : lo \in KernelCutoffs}
              \cup {<<lo, hi>> : lo \in {440, 1000, 4410}, hi \in {3400, 5000, 11025}}}

\* The buffers filtered: none, short ones, and a unit impulse in the middle of
\* kernelSize samples (for the generators whose frames are longer than that).
KernelExamples ==
    {<<>>, <<Unit>>, <<Unit, -Unit>>, <<0, Unit, Unit>>,
     [i \in 1..kernelSize |-> IF i = 51 THEN Unit ELSE 0]}

InitKernel ==
    /\ options \in [{1} -> KernelOptions]
    /\ params = [g \in {1} |-> Construct(options[g])]
    /\ window = DefaultWindow
    /\ audioData \in KernelExamples
    /\ Len(audioData) <= 3 \/ Len(audioData) < params[1].fftSize
    /\ Idle

SpecKernel == InitKernel /\ [][Next]_vars

\* ------------------------------------------- specification: rendering

\* Longest enumerated sample buffer handed to a generator that renders.
MaxRenderLen == 2

\* The global objects of the pages: two widths, and for the name 'hot' each
\* of the bindings.
Windows ==
    {[innerWidth |-> wd, bound |-> [n \in {"hot", "jet"} |->
                                      IF n = "hot" THEN b ELSE "blue"]] :
        wd \in {800, 1024}, b \in Bindings}

\* Options that move the bin range: bins are 4 Hz wide for fftSize 2 and 2 Hz
\* wide for fftSize 4 at 8 Hz, and 22050 Hz and 11025 Hz wide at the default rate.
BinRangeOptions ==
    {Options([sampleRate |-> r, fftSize |-> {s}, windowType |-> {"None"},
              fMin |-> lo, fMax |-> {hi}]) :
        r \in Maybe({8}), s \in {2, 4}, lo \in Maybe({0, 2, 3, 5}),
        hi \in {1, 3, 4, 5, 9}}

\* Options that move the colours and the size of the canvas, at 8 Hz with
\* fftSize 2: fMax 4 asks for bin 0 alone, fMax 9 for bins 0 and 1.
CanvasOptions ==
    {Options([sampleRate |-> {8}, fftSize |-> {2}, windowType |-> {"None"},
              fMin |-> {0}, fMax |-> {hi}, gainDb |-> gain, rangeDb |-> range,
              colormapName |-> name, targetWidth |-> width,
              showFrequencyAxis |-> axis]) :
        hi \in {4, 9}, gain \in Maybe({100}), range \in Maybe({80}),
        name \in Maybe({"jet"}), width \in Maybe({300}), axis \in Maybe({TRUE})}

\* Options that move the frequency axis, at the default rate with fftSize 2
\* (one bin of 22050 Hz): the scale, its two ends, and the number of ticks,
\* given (1 is raised to 2) or left to the height of the canvas (500 px give
\* 16 ticks, 90 px give 3).
AxisOptions ==
    {Options([fftSize |-> {2}, windowType |-> {"None"}, showFrequencyAxis |-> {TRUE},
              scaleType |-> scale, fMin |-> {lo}, fMax |-> {hi},
              nTicks |-> n, canvasHeight |-> height]) :
        scale \in Maybe({"Mel"}), lo \in {0, 20, 100}, hi \in {440, 1000},
        n \in Maybe({1, 2, 4}), height \in Maybe({90})}

\* A recording of four samples, for the generators with fftSize 4.
RenderExamples == {<<Unit, 0, -Unit, 0>>}

\* The options and the page of each generator that renders.
RenderCases ==
    {[options |-> o, window |-> DefaultWindow] : o \in BinRangeOptions \cup AxisOptions}
    \cup {[options |-> o, window |-> w] : o \in CanvasOptions, w \in Windows}

InitRender ==
    /\ \E c \in RenderCases :
        /\ options = [g \in {1} |-> c.options]
        /\ window = c.window
    /\ params = [g \in {1} |-> Construct(options[g])]
    /\ audioData \in SeqsOf(Samples, 0, MaxRenderLen) \cup RenderExamples
    /\ Idle

\* The factors exportHighResPNG is called with (2 is its default).
Upscales == {2, 3}

NextRender ==
    \/ Next
    \/ \E g \in DOMAIN params, upscale \in Upscales : ExportHighResPNG(g, upscale)

SpecRender == InitRender /\ [][NextRender]_vars

\* ------------------------------- specification: pitch and harmonics

\* Sample rates, fMin and fMax values supplied by callers, in Hz.
PitchRates == {4, 6}

PitchFMins == {0, 1, 2, 3}

PitchFMaxs == {1, 2, 3, 6, 7, 12}

\* A buffer of the given length that is 1.0 at the (1-based) places given and
\* 0.0 elsewhere.
Impulses(length, places) == [i \in 1..length |-> IF i \in places THEN Unit ELSE 0]

\* Two longer recordings with their configurations: a period of 6 samples at
\* 12 Hz under fMax = 11, and a period of 11 samples at 12 Hz under fMax = 12.
PitchExamples ==
    {[audioData |-> Impulses(7, {1, 7}),
      options |-> [sampleRate |-> 12, fMin |-> 1, fMax |-> 11]],
     [audioData |-> Impulses(12, {1, 12}),
      options |-> [sampleRate |-> 12, fMin |-> 1, fMax |-> 12]]}

\* The buffers and options of the pitch calls.
PitchCases ==
    PitchExamples \cup
    {[audioData |-> a, options |-> [sampleRate |-> r, fMin |-> lo, fMax |-> hi]] :
        a \in SeqsOf(Samples, 0, MaxPitchLen),
        r \in PitchRates, lo \in PitchFMins, hi \in PitchFMaxs}

InitPitch ==
    /\ \E c \in PitchCases :
        /\ options = [g \in {1} |-> c.options]
        /\ audioData = c.audioData
    /\ params = [g \in {1} |-> Construct(options[g])]
    /\ window = DefaultWindow
    /\ Idle

\* detectPitch correlating the conditioned signal.
PitchInputFiltered(p, signal) == applyFilter(p, signal).data

\* The buffer detectPitch correlates.
PitchInput(p, signal) == signal

\* detectPitch entered with lag kept from the call before in place of starting
\* at minLag, as if it were a field of the generator.
EnterDetectPitchResuming(g, from) ==
    /\ pc = "idle"
    /\ pc' = "detectPitch"
    /\ this' = g
    /\ caller' = from
    /\ lag' = IF lagsTried = <<>> THEN MinLag(params[g]) ELSE lag
    /\ bestLag' = 0
    /\ bestCorrelation' = NegInf
    /\ lagsTried' = <<>>
    /\ UNCHANGED <<fixedVars, audioData, fftResult, spectrogramVars, result>>

\* detectPitch is entered, from the caller or from extractHarmonics.
EnterDetectPitch(g, from) ==
    /\ pc = "idle"
    /\ pc' = "detectPitch"
    /\ this' = g
    /\ caller' = from
    /\ lag' = MinLag(params[g])
    /\ bestLag' = 0
    /\ bestCorrelation' = NegInf
    /\ lagsTried' = <<>>
    /\ UNCHANGED <<fixedVars, audioData, fftResult, spectrogramVars, result>>

\* detectPitch(audioData) is called on generator g.
DetectPitch(g) == EnterDetectPitch(g, "detectPitch")

\* extractHarmonics(audioData) is called on generator g.
ExtractHarmonics(g) == EnterDetectPitch(g, "extractHarmonics")

\* One iteration of detectPitch's loop over the lags.
LagStep ==
    /\ pc = "detectPitch"
    /\ lag <= MaxLag(params[this])
    /\ LET signal == PitchInput(params[this], audioData)
           sum == Correlation(signal, lag)
       IN  /\ IF Better(sum, bestCorrelation)
              THEN bestCorrelation' = sum /\ bestLag' = lag
              ELSE UNCHANGED <<bestCorrelation, bestLag>>
           /\ lag' = NextLag(lag, MaxLag(params[this]), Len(signal))
           /\ lagsTried' = IF MaxLag(params[this]) = Inf THEN lagsTried
                           ELSE Append(lagsTried, lag)
    /\ UNCHANGED <<pc, this, fixedVars, audioData, fftResult, spectrogramVars, caller, result>>

\* The loop is over: detectPitch returns, and extractHarmonics, if it was the
\* caller, builds the harmonics and returns.
ReturnPitch ==
    /\ pc = "detectPitch"
    /\ ~(lag <= MaxLag(params[this]))
    /\ LET fundamental == Fundamental(params[this].sampleRate, bestLag) IN
       result' = [result EXCEPT ![this] =
          IF caller = "detectPitch"
          THEN [status |-> "returned", op |-> "detectPitch", fundamental |-> fundamental]
          ELSE [status |-> "returned", op |-> "extractHarmonics",
                fundamental |-> fundamental,
                harmonics |-> HarmonicsFrom(fundamental, params[this].fMax, 2)]]
    /\ pc' = "idle"
    /\ UNCHANGED <<this, fixedVars, audioData, fftResult, spectrogramVars, caller, lag,
                   bestLag, bestCorrelation, lagsTried>>

NextPitch ==
    \/ \E g \in DOMAIN params : DetectPitch(g)
    \/ \E g \in DOMAIN params : ExtractHarmonics(g)
    \/ LagStep
    \/ ReturnPitch

SpecPitch == InitPitch /\ [][NextPitch]_vars

\* A call that has been entered runs to its end: the body of detectPitch is
\* synchronous code, so its next loop iteration or its return is always taken.
SpecPitchFair == SpecPitch /\ WF_vars(LagStep) /\ WF_vars(ReturnPitch)

\* ------------------------------------- specification: every operation

\* Generators on which every public method is called: 4 Hz, fftSize 2.
AllOptions ==
    {Options([sampleRate |-> {4}, fftSize |-> {2}, fMin |-> {lo}, fMax |-> {hi},
              windowType |-> w, filterType |-> t, filterCutoffs |-> c]) :
        lo \in {1, 2}, hi \in {2, 3},
        w \in Maybe({"None", "Hanning", "Cosine"}),
        t \in Maybe({"highpass", "bandpass"}),
        c \in Maybe({<<1>>})}

InitAll ==
    /\ options \in [{1} -> AllOptions]
    /\ params = [g \in {1} |-> Construct(options[g])]
    /\ window = DefaultWindow
    /\ audioData \in SeqsOf(Samples, 0, MaxRenderLen)
    /\ Idle

NextAll ==
    \/ NextRender
    \/ NextPitch

SpecAll == InitAll /\ [][NextAll]_vars

\* --------------------- specification: two generators, one buffer

\* Filter settings of the two generators (cutoffs in Hz, for the rates below).
TwinFilters ==
    {<<>>,
     [filterType |-> "lowpass", filterCutoffs |-> <<1>>],
     [filterType |-> "highpass", filterCutoffs |-> <<1>>]}

\* Buffers and the options the two generators share.
TwinCases ==
    {[audioData |-> a, options |-> [sampleRate |-> 4, fMin |-> lo, fMax |-> hi]] :
        a \in SeqsOf(Samples, 0, MaxPitchLen), lo \in {1, 2}, hi \in {2, 3, 4}}

\* Generators 1 and 2 are constructed with the same sampleRate, fMin and fMax
\* and with different filter settings, and are handed the same buffer.
InitTwin ==
    /\ \E c \in TwinCases, f1, f2 \in TwinFilters :
        /\ f1 # f2
        /\ options = [g \in {1, 2} |-> c.options @@ (IF g = 1 THEN f1 ELSE f2)]
        /\ audioData = c.audioData
    /\ params = [g \in {1, 2} |-> Construct(options[g])]
    /\ window = DefaultWindow
    /\ Idle

SpecTwin == InitTwin /\ [][NextPitch]_vars

\* ------------------------------------------------------ claims on the FFT

\* n is a power of two (1 included).
IsPow2(n) == \E e \in 0..30 : n = 2 ^ e

\* The discrete Fourier transform of x at bin k (0-based), exact for the
\* lengths 1, 2 and 4, where e^(-2*pi*i*k*n/N) is one of 1, -i, -1, i.
DFT(x, k) ==
    LET N == Len(x)
        q(n) == (k * n * (4 \div N)) % 4
        cosQ == <<1, 0, -1, 0>>
        sinQ == <<0, 1, 0, -1>>
    IN  [re |-> SumTo([n \in 1..N |-> x[n] * cosQ[q(n - 1) + 1]], N),
         im |-> SumTo([n \in 1..N |-> -(x[n] * sinQ[q(n - 1) + 1])], N)]

\* C1 (as claimed): for every input length N >= 0 that is not a power of two,
\* N = 0 included, myFFT raises an error and returns no bins.
C1_NonPow2Throws ==
    (fftResult.status # "none" /\ ~IsPow2(Len(audioData)))
        => (fftResult.status = "thrown" /\ fftResult.bins = <<>>)

PassThroughConfigured(p) ==
    \/ p.filterType = "none"
    \/ p.filterType \in {"lowpass", "highpass"} /\ Len(p.filterCutoffs) < 1
    \/ p.filterType \in {"bandpass", "notch"} /\ Len(p.filterCutoffs) < 2

\* C2: for every buffer shorter than fftSize (>= 2), computeSpectrogram returns
\* a matrix with zero frames, raises nothing and never invokes the FFT.
C2_ShortBufferNoFrames ==
    (Len(audioData) < params[this].fftSize /\ params[this].fftSize >= 2)
        => /\ fftCalls = 0
           /\ frames = <<>>
           /\ spectrogramData = <<>>
           /\ outcome # "thrown"
           /\ pc = "frames" => ENABLED ReturnSpectrogram

\* C2 witness: a call on a non-empty buffer shorter than fftSize has returned.
C2_Witness ==
    /\ outcome = "returned"
    /\ Len(audioData) > 0
    /\ Len(audioData) < params[this].fftSize
    /\ params[this].fftSize = 4
    /\ filterCalls = 1

\* C3: applyFilter returns the input signal itself, unmodified, whenever
\* filterType is 'none' or the cutoff list is too short for the filter type;
\* nothing is raised and no convolution is performed.
C3_FilterPassThrough ==
    (filterCalls > 0 /\ PassThroughConfigured(params[this]))
        => /\ filteredData.same
           /\ filteredData.data = audioData
           /\ filteredData.convolutions = 0
           /\ (outcome # "thrown" \/ fftCalls > 0)

\* C3 witness: applyFilter has run for bandpass with a single cutoff.
C3_Witness ==
    /\ filterCalls = 1
    /\ params[this].filterType = "bandpass"
    /\ Len(params[this].filterCutoffs) = 1
    /\ \E i \in 1..Len(audioData) : audioData[i] # 0

\* The condition of C4: a power-of-two fftSize >= 2 and a buffer at least as long.
FullFrames ==
    /\ IsPow2(params[this].fftSize)
    /\ params[this].fftSize >= 2
    /\ Len(audioData) >= params[this].fftSize

\* C4: for every buffer of length L >= fftSize and power-of-two fftSize >= 2,
\* with hop = fftSize/2, computeSpectrogram returns exactly
\* floor((L - fftSize)/hop) + 1 frames in time order: row i is the frame that
\* starts at sample i*hop.
C4_FrameCountAndOrder ==
    FullFrames =>
        LET fftSize == params[this].fftSize
            hop == fftSize \div 2
            L == Len(audioData)
        IN  /\ outcome # "thrown"
            /\ Len(frames) = Len(spectrogramData)
            /\ outcome = "returned"
                 => Len(spectrogramData) = ((L - fftSize) \div hop) + 1
            /\ \A i \in 1..Len(frames) :
                 /\ frames[i].start = (i - 1) * hop
                 /\ Len(frames[i].samples) = fftSize
                 /\ spectrogramData[i] =
                      MagArray(myFFT(applyWindow(frames[i].samples,
                                                 params[this].windowType).data).bins)

\* C4 witness: a returned matrix of three frames whose rows differ.
C4_Witness ==
    /\ FullFrames
    /\ outcome = "returned"
    /\ Len(spectrogramData) = 3
    /\ spectrogramData[1] # spectrogramData[3]

\* C9: the spectrogram path applies the filter before framing: applyFilter
\* runs once, on the whole buffer, before any frame is sliced, and every frame
\* i is the slice [i*hop, i*hop + fftSize) of the filtered signal.
C9_FilterBeforeFraming ==
    /\ filterCalls <= 1
    /\ pc = "applyFilter" => (frames = <<>> /\ fftCalls = 0 /\ filterCalls = 0)
    /\ frames # <<>> => filterCalls = 1
    /\ filterCalls = 1 =>
         /\ Len(filteredData.data) = Len(audioData)
         /\ ~PassThroughConfigured(params[this])
              => (~filteredData.same /\ filteredData.convolutions = 1)
         /\ \A i \in 1..Len(frames) :
              LET fftSize == params[this].fftSize IN
              /\ 2 * frames[i].start = (i - 1) * fftSize
              /\ frames[i].samples =
                   SubSeq(filteredData.data, frames[i].start + 1,
                          frames[i].start + fftSize)

\* C9 witness: a filter is configured and the second frame sliced differs from
\* the same slice of the raw buffer.
C9_Witness ==
    /\ ~PassThroughConfigured(params[this])
    /\ Len(frames) >= 2
    /\ frames[2].samples #
         SubSeq(audioData, frames[2].start + 1,
                frames[2].start + params[this].fftSize)

\* -------------------------------------- claims on pitch and harmonics

\* The last call of detectPitch or extractHarmonics has returned.
PitchReturned == pc = "idle" /\ result[this].status = "returned"

RECURSIVE LagSum(_, _, _)
\* The sum of signal[i]*signal[i+lag] over the i (0-based, from i on) with
\* i + lag < length.
LagSum(signal, l, i) ==
    IF i + l >= Len(signal) THEN 0
    ELSE signal[i + 1] * signal[i + l + 1] + LagSum(signal, l, i + 1)

\* C6: detectPitch evaluates every integer lag from floor(sampleRate/fMax) to
\* floor(sampleRate/fMin) in ascending order, and returns sampleRate/bestLag
\* where bestLag is the lag with the greatest sum of signal[i]*signal[i+lag],
\* the lowest such lag among equals.
C6_BestLag ==
    (PitchReturned /\ params[this].fMin > 0 /\ params[this].fMax > 0) =>
        LET sampleRate == params[this].sampleRate
            lo == sampleRate \div params[this].fMax
            hi == sampleRate \div params[this].fMin
            f == result[this].fundamental
        IN  /\ Len(lagsTried) = Max(hi - lo + 1, 0)
            /\ \A i \in 1..Len(lagsTried) : lagsTried[i] = lo + i - 1
            /\ lo <= hi =>
                 /\ bestLag \in lo..hi
                 /\ \A l \in lo..hi :
                      /\ LagSum(audioData, l, 0) <= LagSum(audioData, bestLag, 0)
                      /\ LagSum(audioData, l, 0) = LagSum(audioData, bestLag, 0)
                           => bestLag <= l
                 /\ bestLag # 0 => (f.den # 0 /\ f.num * bestLag = sampleRate * f.den)

\* C6 witness: two lags tie for the greatest sum, which is not the first lag's,
\* and the lower of the two was returned.
C6_Witness ==
    /\ PitchReturned
    /\ Len(lagsTried) >= 3
    /\ bestLag > lagsTried[1]
    /\ \E l \in (bestLag + 1)..lagsTried[Len(lagsTried)] :
          LagSum(audioData, l, 0) = LagSum(audioData, bestLag, 0)
    /\ result[this].fundamental.num # 0

\* C7: detectPitch returns the 0 Hz sentinel, raising nothing and dividing by no
\* zero, whenever floor(sampleRate/fMax) > floor(sampleRate/fMin) (an empty
\* range) and whenever the selected lag is 0.
C7_ZeroSentinel ==
    PitchReturned =>
        LET p == params[this]
            emptyRange == /\ p.fMin > 0
                          /\ p.fMax > 0
                          /\ p.sampleRate \div p.fMax > p.sampleRate \div p.fMin
            f == result[this].fundamental
        IN  /\ f.den # 0
            /\ emptyRange => lagsTried = <<>>
            /\ (emptyRange \/ bestLag = 0) => f.num = 0

\* C7 witness: lag 0 was in the range and was selected for a buffer that is
\* not silent.
C7_Witness ==
    /\ PitchReturned
    /\ lagsTried # <<>>
    /\ bestLag = 0
    /\ \E i \in 1..Len(audioData) : audioData[i] # 0
    /\ result[this].fundamental.num = 0

\* C8: detectPitch and extractHarmonics work on the raw buffer: for the same
\* buffer, sampleRate, fMin and fMax their results are the same whatever
\* filterType and filterCutoffs are.
C8_PitchIgnoresFilter ==
    \A g1, g2 \in DOMAIN params :
        (/\ result[g1].status = "returned"
         /\ result[g2].status = "returned"
         /\ result[g1].op = result[g2].op
         /\ params[g1].sampleRate = params[g2].sampleRate
         /\ params[g1].fMin = params[g2].fMin
         /\ params[g1].fMax = params[g2].fMax)
            => result[g1] = result[g2]

\* C8 witness: both generators have returned harmonics of a detected pitch for
\* a buffer that their filters condition differently.
C8_Witness ==
    /\ DOMAIN params = {1, 2}
    /\ result[1].status = "returned"
    /\ result[2].status = "returned"
    /\ result[1].op = "extractHarmonics"
    /\ result[2].op = "extractHarmonics"
    /\ result[1].fundamental.num # 0
    /\ applyFilter(params[1], audioData).data # applyFilter(params[2], audioData).data
    /\ ~PassThroughConfigured(params[1])
    /\ ~PassThroughConfigured(params[2])

\* C10: extractHarmonics returns, for the fundamental f that detectPitch
\* returns, exactly the multiples n*f for n = 2, 3, ... in that order, stopping
\* at the first n with n*f > fMax or after n = 10; a multiple equal to fMax is
\* kept.
C10_Harmonics ==
    (PitchReturned /\ result[this].op = "extractHarmonics") =>
        LET f == result[this].fundamental
            h == result[this].harmonics
            fMax == params[this].fMax
        IN  /\ f.den # 0
            /\ f.num * bestLag = (IF bestLag = 0 THEN 0 ELSE params[this].sampleRate) * f.den
            /\ Len(h) <= 9
            /\ \A i \in 1..Len(h) :
                 /\ h[i].num * f.den = (i + 1) * f.num * h[i].den
                 /\ h[i].num <= fMax * h[i].den
            /\ Len(h) < 9 => (Len(h) + 2) * f.num > fMax * f.den

\* C10 witness: the fundamental is 2 Hz and fMax 11 Hz, and the harmonics
\* returned are 4, 6, 8 and 10 Hz (100 Hz under 550 Hz, scaled).
C10_Witness ==
    /\ PitchReturned
    /\ result[this].op = "extractHarmonics"
    /\ params[this].fMax = 11
    /\ result[this].fundamental = Freq(12, 6)
    /\ result[this].harmonics = <<Freq(24, 6), Freq(36, 6), Freq(48, 6), Freq(60, 6)>>

\* C11 (as claimed): for every buffer and every configuration, the harmonic
\* sequence returned by extractHarmonics is strictly ascending (no two entries
\* equal), has at most 9 entries, and every entry is <= fMax.
C11_HarmonicsStrictlyAscending ==
    (PitchReturned /\ result[this].op = "extractHarmonics") =>
        LET h == result[this].harmonics
            fMax == params[this].fMax
        IN  /\ Len(h) <= 9
            /\ \A i \in 1..Len(h) : h[i].den > 0 /\ h[i].num <= fMax * h[i].den
            /\ \A i \in 1..(Len(h) - 1) :
                 h[i].num * h[i + 1].den < h[i + 1].num * h[i].den

\* ------------------------------------------------ claims on the rendering

\* The canvas generateSpectrogram returned in the last call that returned:
\* the result itself, or the image inside exportHighResPNG's data URL.
Rendered == outcome = "returned" /\ canvas.status = "returned"

LastCanvas == IF "dataURL" \in DOMAIN canvas THEN canvas.dataURL.image ELSE canvas

\* C12: the bin range used for the spectrogram is [iMin, iMax) with
\* binFreq = (sampleRate/2)/(fftSize/2), iMin = floor(fMin/binFreq) and
\* iMax = floor(fMax/binFreq), for every sampleRate, fftSize, fMin and fMax:
\* i*binFreq <= f < (i + 1)*binFreq for each of the two, the maximum is
\* searched over the bins iMin..iMax-1, and a range that is not empty is drawn
\* as one row per bin, the highest bin on top.
C12_BinRange ==
    Rendered =>
        LET p == params[this]
            c == LastCanvas
            isFloor(i, f) ==
                /\ i * (p.sampleRate * 2) <= f * (2 * p.fftSize)
                /\ f * (2 * p.fftSize) < (i + 1) * (p.sampleRate * 2)
            inRange == {m \in UNION {{[x |-> x, y |-> y] : y \in c.i_min..(c.i_max - 1)} :
                                        x \in 1..Len(spectrogramData)} :
                            m.y < Len(spectrogramData[m.x])}
        IN  /\ isFloor(c.i_min, p.fMin)
            /\ isFloor(c.i_max, p.fMax)
            /\ \A m \in inRange : spectrogramData[m.x][m.y + 1] <= c.offscreen.globalMax
            /\ inRange # {} =>
                 \E m \in inRange : spectrogramData[m.x][m.y + 1] = c.offscreen.globalMax
            /\ c.i_max > c.i_min =>
                 /\ c.offscreen.specHeight = c.i_max - c.i_min
                 /\ \A x \in 1..Len(spectrogramData) :
                      \A row \in 1..c.offscreen.specHeight :
                         c.offscreen.normalized[x][row] =
                            Clamp(Normalize(CellDb(spectrogramData[x], c.i_max - row),
                                            p.gainDb, p.rangeDb))

\* C12 witness: at 8 Hz with fftSize 4, fMin 3 and fMax 5 a frame was drawn for
\* the range [1, 2).
C12_Witness ==
    /\ Rendered
    /\ params[this].sampleRate = 8
    /\ params[this].fftSize = 4
    /\ params[this].fMin = 3
    /\ params[this].fMax = 5
    /\ LastCanvas.i_min = 1
    /\ LastCanvas.i_max = 2
    /\ Len(spectrogramData) = 1

\* ------------------------------------------------- claims on the kernels

\* The unit impulse: 1 at the centre tap, 0 elsewhere (i is 0-based).
unitImpulse(i) == IF i = kernelSize \div 2 THEN Unit ELSE 0

\* applyFilter has designed a highpass kernel.
HighpassDesigned == kernel # <<>> /\ FilterKind(params[this]) = "highpass"

\* The lowpass kernel for the cutoff of the generator running.
LowpassOfSameCutoff(i) ==
    generateLowpassKernel(params[this].filterCutoffs[1], params[this].sampleRate, i)

\* C13 (as claimed): for every cutoff and sample rate, the highpass and the
\* lowpass kernel of the same cutoff satisfy
\* highpassKernel[i] + lowpassKernel[i] == unitImpulse[i] at every tap i in 0..100.
C13_SpectralInversionExact ==
    HighpassDesigned =>
        \A i \in 0..100 : kernel[i + 1] + LowpassOfSameCutoff(i) = unitImpulse(i)

\* C13 (amended): the highpass kernel has 101 taps; at every tap but the centre
\* highpassKernel[i] + lowpassKernel[i] is exactly 0, and at the centre tap 50
\* highpassKernel[50] is the Float32 nearest to 1 - lowpassKernel[50], so that
\* the sum differs from 1 by at most half the spacing of the Float32 numbers there.
C13_SpectralInversion ==
    HighpassDesigned =>
        /\ Len(kernel) = 101
        /\ \A i \in 0..100 :
             i # 50 => kernel[i + 1] + LowpassOfSameCutoff(i) = 0
        /\ LET sum == kernel[51] + LowpassOfSameCutoff(50)
               exact == Unit - LowpassOfSameCutoff(50)
           IN  /\ 2 * Abs(sum - Unit) <= Ulp(Abs(exact))
               /\ kernel[51] % Ulp(Abs(exact)) = 0

\* C13 witness: a highpass kernel whose centre tap was rounded when stored.
C13_Witness ==
    /\ HighpassDesigned
    /\ kernel[51] + LowpassOfSameCutoff(50) # Unit
    /\ kernel[50] # 0

\* ------------------------------------------------ claims on what is kept

\* Every field of every generator's parameters holds the caller's value if
\* the caller supplied one, else the default.
DefaultsOverlaid ==
    \A g \in DOMAIN params :
        /\ DOMAIN params[g] = DOMAIN DEFAULT_PARAMS
        /\ \A f \in DOMAIN options[g] : params[g][f] = options[g][f]
        /\ \A f \in DOMAIN DEFAULT_PARAMS \ DOMAIN options[g] :
             params[g][f] = DEFAULT_PARAMS[f]

\* C14: the configuration of a SpectrogramGenerator is the defaults overlaid by
\* the caller's overrides, and no sequence of generateSpectrogram,
\* exportHighResPNG, detectPitch and extractHarmonics calls changes a field of it.
C14_ConfigurationFixed == []DefaultsOverlaid /\ [][params' = params]_vars

\* C14 witness: exportHighResPNG and extractHarmonics have both returned on a
\* generator built with some fields supplied and others left to the defaults.
C14_Witness ==
    /\ pc = "idle"
    /\ canvas.status = "returned"
    /\ "dataURL" \in DOMAIN canvas
    /\ result[this].status = "returned"
    /\ result[this].op = "extractHarmonics"
    /\ "windowType" \in DOMAIN options[this]
    /\ params[this].windowType = "Hanning"
    /\ "filterType" \notin DOMAIN options[this]
    /\ params[this].filterType = "none"

\* C15: no operation modifies the caller's sample buffer: whatever the window
\* type and the filter configuration, no step of generateSpectrogram,
\* exportHighResPNG, detectPitch or extractHarmonics changes a sample of it.
C15_BufferUntouched == [][audioData' = audioData]_vars

\* C15 witness: a buffer that is not silent has been filtered (by convolution),
\* framed and windowed, and its pitch detected.
C15_Witness ==
    /\ pc = "idle"
    /\ outcome = "returned"
    /\ filteredData.convolutions = 1
    /\ filteredData.data # audioData
    /\ Len(frames) >= 1
    /\ params[this].windowType = "Hanning"
    /\ result[this].status = "returned"
    /\ \E i \in 1..Len(audioData) : audioData[i] # 0

\* C16: the result of generateSpectrogram depends only on the sample buffer and
\* the Configuration: under any other ambient global state (the function bound
\* to the colormap name, the width of the window) the same call gives the same
\* canvas.
C16_AmbientStateIgnored ==
    Rendered =>
        \A w \in Windows : FinalCanvas(params[this], w, spectrogramData) = LastCanvas

\* ------------------------------------------------- claims on the transform

\* The energy of a signal, and of its bins: sums of squares in units of Unit^2
\* (of whole samples: squares of integers).
SignalEnergy(x) == SumTo([i \in 1..Len(x) |-> (x[i] \div Unit) * (x[i] \div Unit)], Len(x))

BinsEnergy(X) ==
    SumTo([k \in 1..Len(X) |-> (X[k].re * X[k].re + X[k].im * X[k].im) \div (Unit * Unit)],
          Len(X))

\* The bins are whole numbers, so that BinsEnergy loses nothing.
WholeBins(X) == \A k \in 1..Len(X) : X[k].re % Unit = 0 /\ X[k].im % Unit = 0

C18_NoneIsIdentity ==
    params[this].windowType = "None"
        => \A k \in 1..Len(frames) :
              /\ Len(frames[k].windowed) = Len(frames[k].samples)
              /\ \A i \in 1..Len(frames[k].samples) :
                    frames[k].windowed[i] = frames[k].samples[i]

\* C18 witness: a frame of four samples, not all equal, went through
\* applyWindow with kind 'None'.
C18_Witness ==
    /\ params[this].windowType = "None"
    /\ Len(frames) >= 1
    /\ Len(frames[1].samples) = 4
    /\ frames[1].samples[2] # 0
    /\ frames[1].samples[4] # frames[1].samples[2]

\* A number is approximately zero: within one hundredth.
ApproxZero(x) == -(Unit \div 100) <= x /\ x <= Unit \div 100

\* C19 (as claimed): for every frame length N >= 2 the Hanning window has
\* weight 0 at index 0 and weight approximately 0 at index N-1: output[0] and
\* output[N-1] are (approximately) zero whatever the input samples are.
C19_HanningEndsZero ==
    params[this].windowType = "Hanning"
        => \A k \in 1..Len(frames) :
              LET out == frames[k].windowed IN
              Len(out) >= 2 => out[1] = 0 /\ ApproxZero(out[Len(out)])

\* C19 (amended): for every frame length N >= 2 the Hanning window has weight 0
\* at index 0, so output[0] is zero; its weight at index N-1 is that of index 1,
\* sin^2(pi/N): 1 for N = 2, 3/4 for N = 3 and 1/2 for N = 4, hence at least
\* half of the last sample is kept in these frames.
C19_HanningPeriodic ==
    params[this].windowType = "Hanning"
        => \A k \in 1..Len(frames) :
              LET out == frames[k].windowed
                  in == frames[k].samples
                  N == Len(out)
              IN  N >= 2 =>
                    /\ out[1] = 0
                    /\ N = 2 => out[N] = in[N]
                    /\ N = 3 => ApproxZero(RoundDiv(4 * out[N] - 3 * in[N], 4))
                    /\ N = 4 => 2 * out[N] - in[N] \in -1..1
                    /\ N <= 4 /\ in[2] = in[N] => ApproxZero(out[2] - out[N])

\* C19 witness: a Hanning frame of four samples whose first and last samples
\* are not zero: the first is cancelled, the last is halved.
C19_Witness ==
    /\ params[this].windowType = "Hanning"
    /\ Len(frames) >= 1
    /\ Len(frames[1].samples) = 4
    /\ frames[1].samples[1] # 0
    /\ frames[1].windowed[1] = 0
    /\ frames[1].samples[4] = Unit
    /\ frames[1].windowed[4] = Unit \div 2

\* ------------------------------------------------ claims on the tick marks

\* The frequency axis was drawn on the canvas returned.
AxisDrawn == Rendered /\ params[this].showFrequencyAxis

\* The ticks of the axis drawn, in Hz.
Ticks == [i \in 1..Len(LastCanvas.axis.ticks) |-> LastCanvas.axis.ticks[i].freq]

\* The number of ticks asked for: effectiveNTicks of generateSpectrogram.
TicksAskedFor ==
    IF params[this].nTicks > 0 THEN params[this].nTicks
    ELSE Max(2, params[this].canvasHeight \div 30)

MelRounding == 3 * 700

BinOfRow(row) == LastCanvas.i_min + (LastCanvas.offscreen.specHeight - row)

\* The cells of the requested bin range for which the matrix holds a value.
DataInRange ==
    {c \in (1..Len(spectrogramData)) \X (LastCanvas.i_min..(LastCanvas.i_max - 1)) :
        c[2] >= 0 /\ c[2] < Len(spectrogramData[c[1]])}

\* C21: wherever the requested bin range refers to a bin for which a frame
\* holds no data (bin index >= fftSize/2), -100 dB is used for that cell, and
\* when the range contains no data at all the global maximum is -100.
C21_MissingDataFallback ==
    Rendered =>
        /\ \A x \in 1..Len(spectrogramData) :
              \A row \in 1..LastCanvas.offscreen.specHeight :
                 BinOfRow(row) >= Len(spectrogramData[x])
                    => LastCanvas.offscreen.valueDB[x][row] = -100
        /\ DataInRange = {} => LastCanvas.offscreen.globalMax = -100

\* C21 witness: a frame was drawn for a bin range that lies above its one bin.
C21_Witness ==
    /\ Rendered
    /\ Len(spectrogramData) >= 1
    /\ Len(spectrogramData[1]) = 1
    /\ LastCanvas.i_min = 1
    /\ LastCanvas.i_max = 2
    /\ LastCanvas.offscreen.valueDB[1][1] = -100
    /\ LastCanvas.offscreen.globalMax = -100

\* ------------------------------------------------- claims on the decibels

\* A frame whose windowed samples are all zero.
SilentFrame(k) == \A i \in 1..Len(frames[k].windowed) : frames[k].windowed[i] = 0

\* C22: every entry of the spectrogram matrix is 20*log10(|X| + 1e-12) of its
\* FFT bin and so a finite number, never -infinity or NaN, and not below the
\* floor 20*log10(1e-12) = -240 dB, which a frame of all-zero samples yields in
\* every bin; a magnitude of 1 is 0 dB and a magnitude of 2 is 6 dB, rounded
\* down.
C22_DecibelsFinite ==
    \A k \in 1..Len(spectrogramData) :
        LET row == spectrogramData[k]
            x == frames[k].windowed
        IN  /\ \A j \in 1..Len(row) :
                  /\ row[j] \notin {NaN, Inf, NegInf}
                  /\ row[j] >= -240
                  /\ row[j] < Inf
            /\ SilentFrame(k) => \A j \in 1..Len(row) : row[j] = -240
            /\ Len(x) = 2 =>
                 /\ Abs(x[1] + x[2]) = Unit => row[1] = 0
                 /\ Abs(x[1] + x[2]) = 2 * Unit => row[1] = 6

\* C22 witness: a silent frame and a frame of two equal samples were both
\* transformed: -240 dB in the one, 6 dB in bin 0 of the other.
C22_Witness ==
    /\ Len(spectrogramData) >= 3
    /\ SilentFrame(1)
    /\ spectrogramData[1][1] = -240
    /\ frames[3].windowed = <<Unit, Unit>>
    /\ spectrogramData[3][1] = 6

\* ---------------------------------------------- claims on the convolution

\* Sample k (from 0) of the buffer padded with zeros on both sides.
ZeroPadded(k) == IF k >= 0 /\ k < Len(audioData) THEN audioData[k + 1] ELSE 0

\* The sum over all the taps of the kernel centred on sample i (from 0) of the
\* zero-padded buffer.
PaddedSum(i) ==
    SumTo([j \in 1..101 |-> Mul(ZeroPadded(i - 50 + (j - 1)), kernel[j])], 101)

\* C23: when a filter is applied, the conditioned signal has the length of the
\* input and output[i] is the sum over j in 0..100 of
\* signal[i - 50 + j]*kernel[j] over the indices inside the buffer: the
\* convolution of the zero-padded buffer, stored as a Float32.
C23_ZeroPaddedConvolution ==
    (filterCalls = 1 /\ filteredData.convolutions = 1)
        => /\ Len(kernel) = 101
           /\ Len(filteredData.data) = Len(audioData)
           /\ \A i \in 1..Len(audioData) :
                 filteredData.data[i] = Fround(PaddedSum(i - 1))

\* C23 witness: a unit impulse in the middle of 101 samples was filtered: the
\* output is the kernel, last tap first.
C23_Witness ==
    /\ filterCalls = 1
    /\ filteredData.convolutions = 1
    /\ Len(audioData) = 101
    /\ audioData[51] = Unit
    /\ \A i \in 1..101 : filteredData.data[i] = kernel[102 - i]
    /\ filteredData.data[50] # 0
    /\ filteredData.data[51] # filteredData.data[50]

\* ----------------------------------------- claims on the two-cutoff kernels

\* applyFilter has designed a kernel of the kind given.
Designed(kind) == kernel # <<>> /\ FilterKind(params[this]) = kind

\* lowpass(highCut)[i] - lowpass(lowCut)[i] for the cutoffs of the generator
\* running.
LowpassDifference(i) ==
    generateLowpassKernel(params[this].filterCutoffs[2], params[this].sampleRate, i)
        - generateLowpassKernel(params[this].filterCutoffs[1], params[this].sampleRate, i)

\* The bandpass kernel for the cutoffs of the generator running.
BandpassOfSameCutoffs(i) ==
    generateBandpassKernel(params[this].filterCutoffs[1], params[this].filterCutoffs[2],
                           params[this].sampleRate, i)

\* C24 (as claimed): for every pair of cutoffs the bandpass kernel equals
\* lowpass(highCut)[i] - lowpass(lowCut)[i] at every tap, the notch kernel
\* satisfies notch[i] + bandpass[i] == unitImpulse[i] at every tap i in 0..100,
\* and every designed kernel has exactly 101 taps.
C24_TwoCutoffKernelsExact ==
    /\ kernel # <<>> => Len(kernel) = 101
    /\ Designed("bandpass") => \A i \in 0..100 : kernel[i + 1] = LowpassDifference(i)
    /\ Designed("notch") =>
          \A i \in 0..100 : kernel[i + 1] + BandpassOfSameCutoffs(i) = unitImpulse(i)

\* C24 (amended): every designed kernel has exactly 101 taps; the bandpass
\* kernel is the Float32 nearest to lowpass(highCut)[i] - lowpass(lowCut)[i] at
\* every tap; notch[i] + bandpass[i] is exactly 0 at every tap but the centre,
\* and at the centre tap 50 the notch kernel is the Float32 nearest to
\* 1 - bandpass[50], so that the sum differs from 1 by at most half the spacing
\* of the Float32 numbers there.
C24_TwoCutoffKernels ==
    /\ kernel # <<>> => Len(kernel) = 101
    /\ Designed("bandpass") =>
          \A i \in 0..100 :
             /\ 2 * Abs(kernel[i + 1] - LowpassDifference(i)) <= Ulp(Abs(LowpassDifference(i)))
             /\ kernel[i + 1] % Ulp(Abs(LowpassDifference(i))) = 0
    /\ Designed("notch") =>
          /\ \A i \in 0..100 : i # 50 => kernel[i + 1] + BandpassOfSameCutoffs(i) = 0
          /\ LET exact == Unit - BandpassOfSameCutoffs(50)
             IN  /\ 2 * Abs(kernel[51] + BandpassOfSameCutoffs(50) - Unit) <= Ulp(Abs(exact))
                 /\ kernel[51] % Ulp(Abs(exact)) = 0

\* C24 witness: a notch kernel whose centre tap was rounded when stored.
C24_Witness ==
    /\ Designed("notch")
    /\ params[this].sampleRate = 44100
    /\ params[this].filterCutoffs[1] < params[this].filterCutoffs[2]
    /\ kernel[51] + BandpassOfSameCutoffs(50) # Unit
    /\ kernel[50] # 0

\* ------------------------------------------ claims on the normalized value

\* C25: for every matrix and every configuration (any gainDb, any rangeDb) the
\* normalized magnitude handed to the colour function, (valueDB + gainDb)/rangeDb
\* after clamping, is a number inside [0, 1] and never NaN.
C25_NormalizedInUnitInterval ==
    Rendered =>
        \A x \in 1..LastCanvas.offscreen.specWidth :
           \A row \in 1..LastCanvas.offscreen.specHeight :
              LET val == LastCanvas.offscreen.normalized[x][row]
              IN  val # NaN /\ 0 <= val /\ val <= Unit

\* ------------------------------------------ claims on the pitch of silence

\* The buffer carries no pitch: it is empty or every sample is zero.
Silent == \A i \in 1..Len(audioData) : audioData[i] = 0

\* The lag range of the configuration holds at least one lag.
LagRangeNonEmpty(p) ==
    /\ p.fMin > 0
    /\ p.fMax > 0
    /\ p.sampleRate \div p.fMax <= p.sampleRate \div p.fMin

\* C26: for a buffer that carries no pitch (every sample zero, or an empty
\* buffer) and a configuration whose lag range is not empty, detectPitch
\* reports the pitch as undetected: it returns the 0 Hz sentinel.
C26_SilenceUndetected ==
    (PitchReturned /\ Silent /\ LagRangeNonEmpty(params[this]))
        => result[this].fundamental.num = 0

\* ------------------------------------------ claims on detectPitch's termination

\* C27: detectPitch terminates and returns a value for every finite buffer and
\* every configuration with fMin < fMax, also for the Linear scale with
\* fMin = 0: a call that has been entered always comes to its return.
C27_DetectPitchTerminates ==
    (pc = "detectPitch" /\ params[this].fMin < params[this].fMax
                        /\ params[this].scaleType = "Linear")
        ~> (pc = "idle")

\* ------------------------------------------ claims on the band of the pitch

\* detectPitch has returned a fundamental that is not the 0 Hz sentinel.
PitchDetected == PitchReturned /\ result[this].fundamental.num # 0

\* C28 as stated: whenever detectPitch returns a nonzero fundamental f it lies
\* inside the configured band, fMin <= f <= fMax, for every buffer, sampleRate,
\* fMin and fMax.
C28_PitchInsideBand ==
    PitchDetected =>
        LET f == result[this].fundamental
        IN  /\ params[this].fMin * f.den <= f.num
            /\ f.num <= params[this].fMax * f.den

\* C28, amended: whenever detectPitch returns a nonzero fundamental f, then
\* fMin <= f, and f <= sampleRate / floor(sampleRate/fMax) when that floor is
\* at least 1 (which is fMax exactly when fMax divides sampleRate), and
\* f <= sampleRate < fMax when the floor is 0.
C28_PitchInsideLagBand ==
    PitchDetected =>
        LET f == result[this].fundamental
            sampleRate == params[this].sampleRate
            minLag == sampleRate \div params[this].fMax
        IN  /\ params[this].fMin * f.den <= f.num
            /\ IF minLag = 0
               THEN f.num <= sampleRate * f.den /\ sampleRate < params[this].fMax
               ELSE f.num * minLag <= sampleRate * f.den
            /\ sampleRate % params[this].fMax = 0 => f.num <= params[this].fMax * f.den

\* C28 witness: the first lag of a range of several lags had the greatest sum,
\* a positive one, and the fundamental returned is above fMax.
C28_Witness ==
    /\ PitchDetected
    /\ bestCorrelation > 0
    /\ bestLag = MinLag(params[this])
    /\ bestLag < MaxLag(params[this])
    /\ result[this].fundamental.num > params[this].fMax * result[this].fundamental.den

\* ------------------------------------------ claims on state between calls

\* bestLag of a first call of detectPitch on a newly constructed generator,
\* its loop run from lag l with the best lag and sum so far.
RECURSIVE FreshBestLag(_, _, _, _, _)
FreshBestLag(signal, l, maxLag, best, bestCorr) ==
    IF l > maxLag THEN best
    ELSE LET sum == Correlation(signal, l) IN
         IF Better(sum, bestCorr)
         THEN FreshBestLag(signal, l + 1, maxLag, l, sum)
         ELSE FreshBestLag(signal, l + 1, maxLag, best, bestCorr)

\* What detectPitch returns on a newly constructed generator of parameters p.
FreshPitch(p, signal) ==
    Fundamental(p.sampleRate, FreshBestLag(signal, MinLag(p), MaxLag(p), 0, NegInf))

\* What the pitch call op returns on a newly constructed generator.
FreshResult(op, p, signal) ==
    IF op = "detectPitch"
    THEN [status |-> "returned", op |-> op, fundamental |-> FreshPitch(p, signal)]
    ELSE [status |-> "returned", op |-> op, fundamental |-> FreshPitch(p, signal),
          harmonics |-> HarmonicsFrom(FreshPitch(p, signal), p.fMax, 2)]

\* The canvas generateSpectrogram returns on a newly constructed generator.
FreshCanvas(p, w, signal) ==
    LET source == FrameSource(signal, applyFilter(p, signal).data)
        row(i) == LET frame == Slice(source, FrameStart(i, p.fftSize),
                                     FrameEnd(i, p.fftSize))
                  IN  MagArray(myFFT(applyWindow(frame, p.windowType).data).bins)
    IN  FinalCanvas(p, w, [k \in 1..NumFrames(Len(source), p.fftSize) |-> row(k - 1)])

\* C29: operations keep no state between calls: after any sequence of
\* generateSpectrogram, detectPitch and extractHarmonics calls on one
\* generator, what a call returns for a buffer is what the same call returns on
\* a newly constructed generator with the same configuration.
C29_NoStateBetweenCalls ==
    /\ \A g \in DOMAIN params :
          result[g].status = "returned" =>
              result[g] = FreshResult(result[g].op, Construct(options[g]), audioData)
    /\ (pc = "idle" /\ outcome = "returned") =>
          LET fresh == FreshCanvas(Construct(options[this]), window, audioData)
          IN  IF "dataURL" \in DOMAIN canvas
              THEN canvas.dataURL.image = fresh
              ELSE canvas = fresh

\* C29 witness: the generator has returned both a spectrogram of at least one
\* row and the result of extractHarmonics for a detected pitch, so the later of the two calls was
\* made on a generator that had been used.
C29_Witness ==
    /\ pc = "idle"
    /\ outcome = "returned"
    /\ "dataURL" \notin DOMAIN canvas
    /\ canvas.offscreen.specWidth >= 1
    /\ result[this].status = "returned"
    /\ result[this].op = "extractHarmonics"
    /\ result[this].fundamental.num # 0
    /\ options[this] # << >>

\* ------------------------------------------ claims on the frames' extent

\* C30: for every power-of-two fftSize >= 2 and every buffer, each row of the
\* matrix is computed from exactly fftSize consecutive samples that all lie
\* inside the buffer, i*hop + fftSize <= length for every produced frame i (no
\* frame is short or zero-filled), and each row has exactly fftSize/2 bins.
C30_FramesInsideBuffer ==
    (IsPow2(params[this].fftSize) /\ params[this].fftSize >= 2) =>
        LET fftSize == params[this].fftSize
            hop == fftSize \div 2
        IN  /\ \A i \in 1..Len(frames) :
                 /\ (i - 1) * hop + fftSize <= Len(audioData)
                 /\ Len(filteredData.data) = Len(audioData)
                 /\ frames[i].samples =
                      [k \in 1..fftSize |-> filteredData.data[(i - 1) * hop + k]]
            /\ \A i \in 1..Len(spectrogramData) :
                 /\ i <= Len(frames)
                 /\ Len(spectrogramData[i]) * 2 = fftSize

\* C30 witness: a matrix of two bins per row was returned for a buffer of
\* exactly fftSize = 4 samples that are not all equal.
C30_Witness ==
    /\ pc = "idle"
    /\ outcome = "returned"
    /\ params[this].fftSize = 4
    /\ Len(audioData) = 4
    /\ Len(frames) = 1
    /\ Len(spectrogramData) = 1
    /\ Len(spectrogramData[1]) = 2
    /\ \E k \in 2..4 : frames[1].samples[k] # frames[1].samples[1]

====
